---- MODULE Spec2Model ----
(***************************************************************************)
(* Model of argparse::Argument_Parser (include/argument-parser.h).         *)
(*                                                                         *)
(* A std::string is a sequence of one-character strings, so the regular    *)
(* expressions of the name validators are evaluated character by           *)
(* character.  The unordered maps are functions whose DOMAIN is the key    *)
(* set.  help_text is carried by no decision of the parser and is left     *)
(* out of the records.                                                     *)
(***************************************************************************)
EXTENDS Integers, Sequences, FiniteSets, TLC

(***************************************************************************)
(* Character classes of the regular expressions.                           *)
(***************************************************************************)
Lower == {"a","b","c","d","e","f","g","h","i","j","k","l","m",
          "n","o","p","q","r","s","t","u","v","w","x","y","z"}
Upper == {"A","B","C","D","E","F","G","H","I","J","K","L","M",
          "N","O","P","Q","R","S","T","U","V","W","X","Y","Z"}
Digit == {"0","1","2","3","4","5","6","7","8","9"}

\* [a-zA-Z_]
IsNameStart(c) == c \in Lower \cup Upper \cup {"_"}

\* [a-zA-Z0-9_-]
IsNameChar(c) == c \in Lower \cup Upper \cup Digit \cup {"_", "-"}

\* \w
IsWordChar(c) == c \in Lower \cup Upper \cup Digit \cup {"_"}

\* the characters of s from position from (1-based) to the end
Tail_from(s, from) == SubSeq(s, from, Len(s))

\* [a-zA-Z_][a-zA-Z0-9_-]+  matched against the whole of s
LongBody(s) ==
    /\ Len(s) >= 2
    /\ IsNameStart(s[1])
    /\ \A i \in 2..Len(s) : IsNameChar(s[i])

\* \w[a-zA-Z0-9_-]*
valid_positional_name(name) ==
    /\ Len(name) >= 1
    /\ IsWordChar(name[1])
    /\ \A i \in 2..Len(name) : IsNameChar(name[i])

\* -([a-zA-Z_]|-?[a-zA-Z_][a-zA-Z0-9_-]+)
valid_option_name(name) ==
    /\ Len(name) >= 2
    /\ name[1] = "-"
    /\ \/ Len(name) = 2 /\ IsNameStart(name[2])
       \/ LongBody(Tail_from(name, 2))
       \/ name[2] = "-" /\ LongBody(Tail_from(name, 3))

\* --?([a-zA-Z_][a-zA-Z0-9_-]+) : the captured group, or "" when no match
format_option_name(name) ==
    IF Len(name) >= 2 /\ name[1] = "-" /\ LongBody(Tail_from(name, 2))
    THEN Tail_from(name, 2)
    ELSE IF Len(name) >= 3 /\ name[1] = "-" /\ name[2] = "-" /\ LongBody(Tail_from(name, 3))
    THEN Tail_from(name, 3)
    ELSE << >>

\* -([a-zA-Z_]) : the captured character, or "" when no match
format_flag_name(name) ==
    IF Len(name) = 2 /\ name[1] = "-" /\ IsNameStart(name[2])
    THEN << name[2] >>
    ELSE << >>

(***************************************************************************)
(* State.                                                                  *)
(***************************************************************************)
VARIABLES
    m_scriptname,        \* std::string
    m_positional_order,  \* std::vector<std::string>
    m_positional_args,   \* name -> Positional_Info [value]
    m_optional_order,    \* std::vector<std::string>
    m_optional_args,     \* name -> Optional_Info [flag, type, values]
    m_flags,             \* char -> reference name
    argc, argv,          \* the caller's argument count and vector (argv[0..])
    pc,                  \* "idle", "walk" (inside parse_args) or "exited"
    argi,                \* parse_args: loop index
    optional_args,       \* parse_args: working copy of m_optional_args
    positional_args,     \* parse_args: collected positional candidates
    outcome,             \* how the last declaration or parse_args call ended
    assigned,            \* history: positionals a parse_args call has assigned
    results,             \* what the arg_at queries of the caller returned
    calls,               \* number of parse_args calls so far
    consumed             \* number of tokens handed to parse_args so far

registry == << m_positional_order, m_positional_args, m_optional_order,
               m_optional_args, m_flags >>
caller   == << argc, argv >>
locals   == << argi, optional_args, positional_args >>
vars     == << m_scriptname, m_positional_order, m_positional_args,
               m_optional_order, m_optional_args, m_flags, argc, argv, pc,
               argi, optional_args, positional_args, outcome, assigned, results,
               calls, consumed >>

EmptyMap == [k \in {} |-> {}]
Put(f, k, v) == [x \in DOMAIN f \cup {k} |-> IF x = k THEN v ELSE f[x]]

NoFlag == " "
Optional_Type == {"FLAG", "SINGLE", "APPEND"}

Positional_Info(value) == [value |-> value]
Optional_Info(flag, type, values) == [flag |-> flag, type |-> type, values |-> values]

\* outcomes of an operation: normal return, or the exception that left it
NoOutcome == [op |-> "none", status |-> "none", what |-> "", arg |-> << >>]
Running(op) == [op |-> op, status |-> "running", what |-> "", arg |-> << >>]
Returned(op) == [op |-> op, status |-> "returned", what |-> "", arg |-> << >>]
Thrown(op, type, what, arg) == [op |-> op, status |-> type, what |-> what, arg |-> arg]

NoResults == EmptyMap

s_help == << "h", "e", "l", "p" >>
s_prog == << "p" >>

\* Argument_Parser(): add_optional("-h", "--help", Optional_Type::FLAG)
Init ==
    /\ m_scriptname = << >>
    /\ m_positional_order = << >>
    /\ m_positional_args = EmptyMap
    /\ m_optional_order = << s_help >>
    /\ m_optional_args = Put(EmptyMap, s_help, Optional_Info("h", "FLAG", << >>))
    /\ m_flags = Put(EmptyMap, "h", s_help)
    /\ argc = 1
    /\ argv = [i \in 0..0 |-> s_prog]
    /\ pc = "idle"
    /\ argi = 0
    /\ optional_args = EmptyMap
    /\ positional_args = << >>
    /\ outcome = NoOutcome
    /\ assigned = {}
    /\ results = NoResults
    /\ calls = 0
    /\ consumed = 0

(***************************************************************************)
(* Declarations.                                                           *)
(***************************************************************************)
\* the message of the logic_error add_positional(name) throws, "" if none
add_positional_error(name) ==
    IF ~valid_positional_name(name) THEN "invalid positional argument name"
    ELSE IF name \in DOMAIN m_positional_args THEN "duplicate positional argument name"
    ELSE IF name \in DOMAIN m_optional_args
    THEN "positional argument name conflicts with optional argument reference name"
    ELSE ""

add_positional(name) ==
    /\ pc = "idle"
    /\ LET e == add_positional_error(name) IN
       IF e # ""
       THEN /\ outcome' = Thrown("add_positional", "logic_error", e, name)
            /\ UNCHANGED registry
       ELSE /\ m_positional_args' = Put(m_positional_args, name, Positional_Info(<< >>))
            /\ m_positional_order' = Append(m_positional_order, name)
            /\ outcome' = Returned("add_positional")
            /\ UNCHANGED << m_optional_order, m_optional_args, m_flags >>
    /\ UNCHANGED << m_scriptname, caller, pc, locals, assigned, results >>

\* the message of the logic_error add_optional(long_name, type) throws, "" if none
add_optional_error(long_name) ==
    LET formatted_name == format_option_name(long_name) IN
    IF formatted_name = << >> THEN "invalid optional argument name"
    ELSE IF formatted_name \in DOMAIN m_optional_args THEN "duplicate optional argument name"
    ELSE IF formatted_name \in DOMAIN m_positional_args
    THEN "optional argument reference name conflicts with positional argument name"
    ELSE ""

add_optional(long_name, type) ==
    /\ pc = "idle"
    /\ LET e == add_optional_error(long_name)
           formatted_name == format_option_name(long_name) IN
       IF e # ""
       THEN /\ outcome' = Thrown("add_optional", "logic_error", e, long_name)
            /\ UNCHANGED registry
       ELSE /\ m_optional_args' = Put(m_optional_args, formatted_name,
                                      Optional_Info(NoFlag, type, << >>))
            /\ m_optional_order' = Append(m_optional_order, formatted_name)
            /\ outcome' = Returned("add_optional")
            /\ UNCHANGED << m_positional_order, m_positional_args, m_flags >>
    /\ UNCHANGED << m_scriptname, caller, pc, locals, assigned, results >>

add_optional_flag_error_no_duplicate_check(flag, long_name) ==
    IF format_flag_name(flag) = << >> THEN "invalid flag name"
    ELSE add_optional_error(long_name)

\* the message of the logic_error add_optional(flag, long_name, type) throws
add_optional_flag_error(flag, long_name) ==
    LET formatted_name == format_flag_name(flag) IN
    IF formatted_name = << >> THEN "invalid flag name"
    ELSE IF formatted_name[1] \in DOMAIN m_flags THEN "duplicate flag name"
    ELSE add_optional_error(long_name)

add_optional_flag(flag, long_name, type) ==
    /\ pc = "idle"
    /\ LET e == add_optional_flag_error(flag, long_name)
           c == format_flag_name(flag)[1]
           ref == format_option_name(long_name) IN
       IF e # ""
       THEN /\ outcome' = Thrown("add_optional", "logic_error", e,
                                 IF e \in {"invalid flag name", "duplicate flag name"}
                                 THEN flag ELSE long_name)
            /\ UNCHANGED registry
       ELSE /\ m_flags' = Put(m_flags, c, ref)
            /\ m_optional_args' = Put(m_optional_args, ref, Optional_Info(c, type, << >>))
            /\ m_optional_order' = Append(m_optional_order, ref)
            /\ outcome' = Returned("add_optional")
            /\ UNCHANGED << m_positional_order, m_positional_args >>
    /\ UNCHANGED << m_scriptname, caller, pc, locals, assigned, results >>

(***************************************************************************)
(* parse_args.  The call, each iteration of the loop over argv and the     *)
(* code after the loop are one step each; nothing else runs while pc is    *)
(* "walk".  An exception leaves parse_args and discards its locals.        *)
(***************************************************************************)
s_true  == << "t", "r", "u", "e" >>
s_false == << "f", "a", "l", "s", "e" >>

\* lookup_formatted_option_name: the reference name, or the runtime_error
lookup_formatted_option_name(option_name) ==
    LET flag_name == format_flag_name(option_name) IN
    IF flag_name # << >>
    THEN IF flag_name[1] \notin DOMAIN m_flags
         THEN [throw |-> TRUE, what |-> "invalid flag", name |-> << >>]
         ELSE [throw |-> FALSE, what |-> "", name |-> m_flags[flag_name[1]]]
    ELSE [throw |-> FALSE, what |-> "", name |-> format_option_name(option_name)]

OptThrow(what) == [kind |-> "throw", what |-> what, optional_args |-> EmptyMap, argi |-> 0]
OptExit_as_invalid_option == [kind |-> "throw", what |-> "invalid option", optional_args |-> EmptyMap, argi |-> 0]
OptExit == [kind |-> "exit", what |-> "", optional_args |-> EmptyMap, argi |-> 0]
OptReturn(oa, i) == [kind |-> "return", what |-> "", optional_args |-> oa, argi |-> i]

\* values.push_back(v) on the entry of name
push_back(oa, name, v) ==
    [oa EXCEPT ![name].values = Append(@, v)]

missing_value_no_recheck(i, n, av) ==
    i + 1 = n

\* lines 467-471: no token follows the option, or an option-like one does
missing_value(i, n, av) ==
    IF i + 1 = n THEN TRUE ELSE valid_option_name(av[i + 1])

specified_twice_flag_only(info) ==
    info.type = "FLAG" /\ info.values # << >>

\* lines 463 and 472: the option already holds a value it may hold only once
specified_twice(info) ==
    info.type # "APPEND" /\ info.values # << >>

\* parse_optional_arg(optional_args, option_name, argi, argc, argv)
parse_optional_arg(oa, option_name, i, n, av) ==
    LET look == lookup_formatted_option_name(option_name)
        formatted_option_name == look.name
    IN
    IF look.throw THEN OptThrow(look.what)
    ELSE IF formatted_option_name = s_help THEN OptExit
    ELSE IF formatted_option_name \notin DOMAIN oa THEN OptThrow("invalid option")
    ELSE LET info == oa[formatted_option_name] IN
         IF info.type = "FLAG"
         THEN IF specified_twice(info)
              THEN OptThrow("should only be specified once")
              ELSE OptReturn(push_back(oa, formatted_option_name, s_true), i)
         ELSE IF missing_value(i, n, av)
              THEN OptThrow("requires a value")
              ELSE IF specified_twice(info)
              THEN OptThrow("should only be specified once")
              ELSE OptReturn(push_back(oa, formatted_option_name, av[i + 1]), i + 1)

\* the exception propagates out of parse_args
parse_args_throw(what, arg) ==
    /\ pc' = "idle"
    /\ outcome' = Thrown("parse_args", "runtime_error", what, arg)
    /\ argi' = 0
    /\ optional_args' = EmptyMap
    /\ positional_args' = << >>

\* the caller passes its (argc, argv); lines 167-171 and the loop initialiser
parse_args_call(tokens) ==
    /\ pc = "idle"
    /\ argc' = Len(tokens) + 1
    /\ argv' = [i \in 0..Len(tokens) |-> IF i = 0 THEN s_prog ELSE tokens[i]]
    /\ m_scriptname' = s_prog
    /\ optional_args' = m_optional_args
    /\ positional_args' = << >>
    /\ argi' = 1
    /\ pc' = "walk"
    /\ outcome' = Running("parse_args")
    /\ UNCHANGED << registry, assigned, results >>

\* one iteration of the loop on an option-like token
parse_args_option ==
    /\ pc = "walk"
    /\ argi < argc
    /\ valid_option_name(argv[argi])
    /\ LET r == parse_optional_arg(optional_args, argv[argi], argi, argc, argv) IN
       CASE r.kind = "throw" -> parse_args_throw(r.what, argv[argi])
         [] r.kind = "exit" ->
              /\ pc' = "exited"
              /\ outcome' = [Returned("parse_args") EXCEPT !.status = "exit"]
              /\ UNCHANGED locals
         [] r.kind = "return" ->
              /\ optional_args' = r.optional_args
              /\ argi' = r.argi + 1
              /\ UNCHANGED << pc, outcome, positional_args >>
    /\ UNCHANGED << m_scriptname, registry, caller, assigned, results >>

\* one iteration of the loop on any other token
parse_args_positional ==
    /\ pc = "walk"
    /\ argi < argc
    /\ ~valid_option_name(argv[argi])
    /\ positional_args' = Append(positional_args, argv[argi])
    /\ argi' = argi + 1
    /\ UNCHANGED << m_scriptname, registry, caller, pc, optional_args, outcome,
                    assigned, results >>

missing_positional_first(order, k) == order[1]

\* line 181: the positional the exception names; k candidates were collected
missing_positional(order, k) == order[k + 1]

\* lines 185-186: every declared positional takes the candidate of its index
assign_positionals(pargs, order, pa) ==
    [name \in DOMAIN pargs |->
       IF \E p \in 1..Len(order) : order[p] = name
       THEN LET p == CHOOSE p \in 1..Len(order) : order[p] = name
            IN  Positional_Info(pa[p])
       ELSE pargs[name]]

rethread_from_start(av, pa, n) ==
    [i \in DOMAIN av |-> IF 1 <= i /\ i <= Len(pa) - n THEN pa[i] ELSE av[i]]

\* lines 188-190: the candidates past the n-th go back into argv[1..]
rethread(av, pa, n) ==
    [i \in DOMAIN av |-> IF 1 <= i /\ i <= Len(pa) - n THEN pa[i + n] ELSE av[i]]

parse_args_finish_commits_before_check ==
    /\ pc = "walk"
    /\ argi >= argc
    /\ LET n == Len(m_positional_order)
           k == Len(positional_args) IN
       IF k < n
       THEN /\ parse_args_throw("requires positional argument",
                                 missing_positional(m_positional_order, k))
            /\ m_optional_args' = optional_args
            /\ UNCHANGED << m_positional_order, m_positional_args, m_optional_order,
                            m_flags, caller, assigned >>
       ELSE /\ m_optional_args' = optional_args
            /\ m_positional_args' =
                 assign_positionals(m_positional_args, m_positional_order, positional_args)
            /\ argc' = k - n + 1
            /\ argv' = rethread(argv, positional_args, n)
            /\ assigned' = assigned \cup {m_positional_order[p] : p \in 1..n}
            /\ pc' = "idle"
            /\ outcome' = Returned("parse_args")
            /\ argi' = 0
            /\ optional_args' = EmptyMap
            /\ positional_args' = << >>
            /\ UNCHANGED << m_positional_order, m_optional_order, m_flags >>
    /\ UNCHANGED << m_scriptname, results >>

\* lines 180-190: the check for missing positionals, then the commit
parse_args_finish ==
    /\ pc = "walk"
    /\ argi >= argc
    /\ LET n == Len(m_positional_order)
           k == Len(positional_args) IN
       IF k < n
       THEN /\ parse_args_throw("requires positional argument",
                                 missing_positional(m_positional_order, k))
            /\ UNCHANGED << registry, caller, assigned >>
       ELSE /\ m_optional_args' = optional_args
            /\ m_positional_args' =
                 assign_positionals(m_positional_args, m_positional_order, positional_args)
            /\ argc' = k - n + 1
            /\ argv' = rethread(argv, positional_args, n)
            /\ assigned' = assigned \cup {m_positional_order[p] : p \in 1..n}
            /\ pc' = "idle"
            /\ outcome' = Returned("parse_args")
            /\ argi' = 0
            /\ optional_args' = EmptyMap
            /\ positional_args' = << >>
            /\ UNCHANGED << m_positional_order, m_optional_order, m_flags >>
    /\ UNCHANGED << m_scriptname, results >>

(***************************************************************************)
(* Extraction.  The queries are const member functions: they read the      *)
(* registry and change nothing.                                            *)
(***************************************************************************)
Value(v) == [kind |-> "value", val |-> v]
Throw(type, what) == [kind |-> "throw", type |-> type, what |-> what]

\* has_arg(name)
has_arg(name) ==
    IF name \notin DOMAIN m_optional_args
    THEN Throw("logic_error", "no optional argument by the name")
    ELSE Value(m_optional_args[name].values # << >>)

\* arg_count(name)
arg_count(name) ==
    IF name \notin DOMAIN m_optional_args
    THEN Throw("logic_error", "no optional argument by the name")
    ELSE Value(Len(m_optional_args[name].values))

optional_arg_no_sentinel(name, idx) ==
    LET info == m_optional_args[name] IN
    IF idx < Len(info.values) THEN Value(info.values[idx + 1])
    ELSE IF info.values = << >> THEN Value(<< >>)
    ELSE Throw("out_of_range", "index is out of range")

\* optional_arg(it, idx); idx is 0-based
optional_arg(name, idx) ==
    LET info == m_optional_args[name] IN
    IF idx < Len(info.values) THEN Value(info.values[idx + 1])
    ELSE IF info.values = << >>
    THEN Value(IF info.type = "FLAG" THEN s_false ELSE << >>)
    ELSE Throw("out_of_range", "index is out of range")

(***************************************************************************)
(* Integers.  A long long or an unsigned long long does not fit the        *)
(* integers of the model checker, so a number is its sign and its decimal  *)
(* digits without leading zeros, and the arithmetic is done on the digits. *)
(***************************************************************************)
DigitOrd(c) == CHOOSE n \in 0..9 : << "0","1","2","3","4","5","6","7","8","9" >>[n + 1] = c
DigitChr(n) == << "0","1","2","3","4","5","6","7","8","9" >>[n + 1]

Zero == << "0" >>
Num(neg, mag) == [neg |-> neg /\ mag # Zero, mag |-> mag]

RECURSIVE StripZeros(_)
StripZeros(d) == IF Len(d) > 1 /\ d[1] = "0" THEN StripZeros(Tail(d)) ELSE d

\* a < b for two magnitudes without leading zeros
MagLess(a, b) ==
    \/ Len(a) < Len(b)
    \/ /\ Len(a) = Len(b)
       /\ \E i \in 1..Len(a) :
             /\ \A j \in 1..(i - 1) : a[j] = b[j]
             /\ DigitOrd(a[i]) < DigitOrd(b[i])

\* x < y for two numbers
NumLess(x, y) ==
    IF x.neg /\ ~y.neg THEN TRUE
    ELSE IF ~x.neg /\ y.neg THEN FALSE
    ELSE IF x.neg THEN MagLess(y.mag, x.mag)
    ELSE MagLess(x.mag, y.mag)

\* a - b for two magnitudes with b <= a, digit by digit from the right
RECURSIVE SubDigits(_, _, _, _)
SubDigits(a, b, k, borrow) ==
    IF k > Len(a) THEN << >>
    ELSE LET da == DigitOrd(a[Len(a) + 1 - k])
             db == IF k <= Len(b) THEN DigitOrd(b[Len(b) + 1 - k]) ELSE 0
             d  == da - db - borrow
         IN SubDigits(a, b, k + 1, IF d < 0 THEN 1 ELSE 0)
               \o << DigitChr(IF d < 0 THEN d + 10 ELSE d) >>
MagSub(a, b) == StripZeros(SubDigits(a, b, 1, 0))

\* std::numeric_limits of long long and unsigned long long
LLONG_MAX == Num(FALSE, << "9","2","2","3","3","7","2","0","3","6","8","5","4","7","7","5","8","0","7" >>)
LLONG_MIN == Num(TRUE, << "9","2","2","3","3","7","2","0","3","6","8","5","4","7","7","5","8","0","8" >>)
ULLONG_MAX == Num(FALSE, << "1","8","4","4","6","7","4","4","0","7","3","7","0","9","5","5","1","6","1","5" >>)
TwoTo64 == << "1","8","4","4","6","7","4","4","0","7","3","7","0","9","5","5","1","6","1","6" >>

\* the integral types T the queries ask for, their lowest() and max()
UnsignedTypes == { "unsigned char", "unsigned long long" }
SignedTypes == { "signed char", "long long" }
IntegerTypes == UnsignedTypes \cup SignedTypes
lowest(T) ==
    CASE T = "signed char" -> Num(TRUE, << "1","2","8" >>)
      [] T = "long long" -> LLONG_MIN
      [] OTHER -> Num(FALSE, Zero)
max(T) ==
    CASE T = "signed char" -> Num(FALSE, << "1","2","7" >>)
      [] T = "unsigned char" -> Num(FALSE, << "2","5","5" >>)
      [] T = "long long" -> LLONG_MAX
      [] OTHER -> ULLONG_MAX

\* what the standard library throws
StdThrow(type) == Throw(type, "")

\* isspace, for the characters the inputs are made of
IsSpace(c) == c = " "

RECURSIVE SkipSpace(_, _)
SkipSpace(s, i) == IF i <= Len(s) /\ IsSpace(s[i]) THEN SkipSpace(s, i + 1) ELSE i

\* the longest run of digits of s from position i
RECURSIVE DigitRun(_, _)
DigitRun(s, i) ==
    IF i <= Len(s) /\ s[i] \in Digit THEN << s[i] >> \o DigitRun(s, i + 1) ELSE << >>

\* the subject sequence of strtoll and strtoull in base 10: white space,
\* an optional sign, the digits; whatever follows the digits is left alone
subject(s) ==
    LET i == SkipSpace(s, 1)
        signed == i <= Len(s) /\ s[i] \in {"+", "-"}
    IN [neg |-> signed /\ s[i] = "-",
        digits |-> DigitRun(s, IF signed THEN i + 1 ELSE i)]

\* std::stoll(value): the end position is not asked for
std_stoll(value) ==
    LET p == subject(value) IN
    IF p.digits = << >> THEN StdThrow("invalid_argument")
    ELSE LET n == Num(p.neg, StripZeros(p.digits)) IN
         IF NumLess(n, LLONG_MIN) \/ NumLess(LLONG_MAX, n)
         THEN StdThrow("out_of_range")
         ELSE Value(n)

\* std::stoull(value): a negative subject is negated in the unsigned type
std_stoull(value) ==
    LET p == subject(value) IN
    IF p.digits = << >> THEN StdThrow("invalid_argument")
    ELSE LET mag == StripZeros(p.digits) IN
         IF MagLess(ULLONG_MAX.mag, mag) THEN StdThrow("out_of_range")
         ELSE IF p.neg /\ mag # Zero THEN Value(Num(FALSE, MagSub(TwoTo64, mag)))
         ELSE Value(Num(FALSE, mag))

stoull_no_dash_check(value) == std_stoull(value)

\* the stoull of the class
stoull(value) ==
    IF \E i \in 1..Len(value) : value[i] = "-"
    THEN StdThrow("out_of_range")
    ELSE std_stoull(value)

\* parse_numeric_arg<T>(name, value, convert_func)
parse_numeric_arg(T, n_value) ==
    IF n_value.kind = "throw"
    THEN IF n_value.type = "invalid_argument"
         THEN Throw("runtime_error", "must be of integral type")
         ELSE Throw("runtime_error", "must be in range")
    ELSE IF NumLess(n_value.val, lowest(T)) \/ NumLess(max(T), n_value.val)
    THEN Throw("runtime_error", "must be in range")
    ELSE n_value

\* parse_string_arg<T>(name, value) for T = bool, the integral types other
\* than char, and std::string
parse_string_arg(T, value) ==
    IF T = "bool"
    THEN IF value = s_true THEN Value(TRUE)
         ELSE IF value = s_false THEN Value(FALSE)
         ELSE Throw("runtime_error", "must be either 'true' or 'false'")
    ELSE IF T \in UnsignedTypes THEN parse_numeric_arg(T, stoull(value))
    ELSE IF T \in SignedTypes THEN parse_numeric_arg(T, std_stoll(value))
    ELSE Value(value)

\* the private arg_at<T>(name, idx, has_default, default_val)
arg_at(T, name, idx, has_default, default_val) ==
    IF name \in DOMAIN m_optional_args
    THEN LET v == optional_arg(name, idx) IN
         IF v.kind = "throw" THEN v
         ELSE IF v.val = << >>
         THEN IF ~has_default
              THEN Throw("logic_error", "no value given and no default specified")
              ELSE Value(default_val)
         ELSE parse_string_arg(T, v.val)
    ELSE IF name \notin DOMAIN m_positional_args
    THEN Throw("logic_error", "no argument by the name")
    ELSE parse_string_arg(T, m_positional_args[name].value)

\* the default_val the caller passes for each T
s_dflt == << "d" >>
n_dflt == Num(FALSE, << "7" >>)
DefaultVal(T) ==
    IF T = "bool" THEN TRUE ELSE IF T \in IntegerTypes THEN n_dflt ELSE s_dflt

\* the queries a caller makes: arg<T>(name [, default_val]) is idx = 0
Queries(Ts, names, maxidx) ==
    [T : Ts, name : names, idx : 0..maxidx, has_default : BOOLEAN]

\* usage step 3: the caller retrieves the arguments, every query once
retrieve(Ts, names, maxidx) ==
    /\ pc = "idle"
    /\ results' = [q \in Queries(Ts, names, maxidx) |->
                     arg_at(q.T, q.name, q.idx, q.has_default, DefaultVal(q.T))]
    /\ UNCHANGED << m_scriptname, registry, caller, pc, locals, outcome, assigned >>

(***************************************************************************)
(* Inputs and bounds.                                                      *)
(***************************************************************************)
MaxTokens == 4      \* tokens handed to parse_args, over all its calls
MaxCalls == 2       \* calls of parse_args
MaxIdx == 1         \* largest idx passed to arg_at

s_file == << "f", "i", "l", "e" >>
s_dst  == << "d", "s", "t" >>
s_tag  == << "t", "a", "g" >>
t_tag_flag == << "-", "t" >>
t_tag_long == << "-", "-", "t", "a", "g" >>
t_help_flag == << "-", "h" >>
t_minus5 == << "-", "5" >>
t_empty == << >>

PositionalNames == { s_file, s_dst }
LongNames == { t_tag_long }
FlagNames == { t_tag_flag }
Tokens == { t_tag_flag, t_tag_long, t_help_flag, t_minus5, t_empty }
TokenVectors(n) == UNION { [1..k -> Tokens] : k \in 0..n }
ValueTypes == { "bool", "string" }
QueryNames == DOMAIN m_optional_args \cup DOMAIN m_positional_args

\* the usage steps of the class comment: declare, then parse, then retrieve
Declaring == m_scriptname = << >> /\ results = NoResults
Parsing == results = NoResults /\ calls < MaxCalls
counters == << calls, consumed >>

Next ==
    \/ \E name \in PositionalNames :
          Declaring /\ add_positional(name) /\ UNCHANGED counters
    \/ \E long_name \in LongNames, type \in Optional_Type :
          Declaring /\ add_optional(long_name, type) /\ UNCHANGED counters
    \/ \E flag \in FlagNames, long_name \in LongNames, type \in Optional_Type :
          Declaring /\ add_optional_flag(flag, long_name, type) /\ UNCHANGED counters
    \/ \E tokens \in TokenVectors(MaxTokens - consumed) :
          /\ Parsing
          /\ parse_args_call(tokens)
          /\ calls' = calls + 1
          /\ consumed' = consumed + Len(tokens)
    \/ parse_args_option /\ UNCHANGED counters
    \/ parse_args_positional /\ UNCHANGED counters
    \/ parse_args_finish /\ UNCHANGED counters
    \/ /\ results = NoResults
       /\ retrieve(ValueTypes, QueryNames, MaxIdx)
       /\ UNCHANGED counters

Spec == Init /\ [][Next]_vars

\* the declarations alone, over names that collide and names that are malformed
DeclPositionalNames == { s_file, s_tag, s_help, << "9" >>, << "-", "x" >> }
DeclLongNames == { t_tag_long, << "-", "t", "a", "g" >>, << "-", "-", "f", "i", "l", "e" >>,
                   << "-", "-", "h", "e", "l", "p" >>, << "-", "-", "t" >>, s_tag }
DeclFlagNames == { t_tag_flag, t_help_flag, << "-", "f" >>, t_minus5 }

NextDecl ==
    \/ \E name \in DeclPositionalNames : add_positional(name) /\ UNCHANGED counters
    \/ \E long_name \in DeclLongNames, type \in Optional_Type :
          add_optional(long_name, type) /\ UNCHANGED counters
    \/ \E flag \in DeclFlagNames, long_name \in DeclLongNames, type \in Optional_Type :
          add_optional_flag(flag, long_name, type) /\ UNCHANGED counters

SpecDecl == Init /\ [][NextDecl]_vars

\* the typed retrieval of integers: one scan stores a value, written with
\* signs, digits, white space and a letter, and the caller reads it back as
\* each integral type
MaxLen == 3         \* characters of a value made of NumAlphabet
NumAlphabet == { "-", "+", "0", "5", "x", " " }
BoundaryStrings ==
    { << "2","5","5" >>, << "2","5","6" >>, << "1","2","7" >>, << "1","2","8" >>,
      << "-","1","2","8" >>, << "-","1","2","9" >>,
      LLONG_MAX.mag, LLONG_MIN.mag, << "-" >> \o LLONG_MIN.mag,
      << "-" >> \o LLONG_MAX.mag \o << "9" >>,
      ULLONG_MAX.mag, TwoTo64, << "+" >> \o ULLONG_MAX.mag }
NumStrings == UNION { [1..k -> NumAlphabet] : k \in 0..MaxLen } \cup BoundaryStrings
ConvVectors == { << v >> : v \in NumStrings } \cup { << t_tag_long, v >> : v \in NumStrings }

NextConv ==
    \/ Declaring /\ add_positional(s_dst) /\ UNCHANGED counters
    \/ \E type \in Optional_Type :
          Declaring /\ add_optional(t_tag_long, type) /\ UNCHANGED counters
    \/ \E tokens \in ConvVectors :
          /\ results = NoResults
          /\ calls = 0
          /\ parse_args_call(tokens)
          /\ calls' = calls + 1
          /\ consumed' = consumed + Len(tokens)
    \/ parse_args_option /\ UNCHANGED counters
    \/ parse_args_positional /\ UNCHANGED counters
    \/ parse_args_finish /\ UNCHANGED counters
    \/ /\ results = NoResults
       /\ retrieve(IntegerTypes, QueryNames, 0)
       /\ UNCHANGED counters

SpecConv == Init /\ [][NextConv]_vars

\* the scans that meet the built-in help option, in its three spellings
t_help_long == << "-", "-", "h", "e", "l", "p" >>
t_help_dash == << "-", "h", "e", "l", "p" >>
HelpTokens == { t_help_flag, t_help_long, t_help_dash, t_tag_long, t_minus5 }
HelpVectors(n) == UNION { [1..k -> HelpTokens] : k \in 0..n }

NextHelp ==
    \/ Declaring /\ add_positional(s_dst) /\ UNCHANGED counters
    \/ \E type \in Optional_Type :
          Declaring /\ add_optional(t_tag_long, type) /\ UNCHANGED counters
    \/ \E tokens \in HelpVectors(MaxTokens - consumed) :
          /\ Parsing
          /\ parse_args_call(tokens)
          /\ calls' = calls + 1
          /\ consumed' = consumed + Len(tokens)
    \/ parse_args_option /\ UNCHANGED counters
    \/ parse_args_positional /\ UNCHANGED counters
    \/ parse_args_finish /\ UNCHANGED counters
    \/ /\ results = NoResults
       /\ retrieve(ValueTypes, QueryNames, MaxIdx)
       /\ UNCHANGED counters

SpecHelp == Init /\ [][NextHelp]_vars

(***************************************************************************)
(* Properties.                                                             *)
(***************************************************************************)
\* the kind of the optional an option-like token resolves to, "none" if it
\* resolves to no declared optional
TokenType(tok) ==
    LET look == lookup_formatted_option_name(tok) IN
    IF look.throw \/ look.name \notin DOMAIN m_optional_args THEN "none"
    ELSE m_optional_args[look.name].type

TakesValue(tok) == valid_option_name(tok) /\ TokenType(tok) \in {"SINGLE", "APPEND"}

\* av[i] is neither option-like nor the value of the option before it
CandidateAt(av, i) ==
    /\ ~valid_option_name(av[i])
    /\ ~(i >= 2 /\ TakesValue(av[i - 1]))

\* the positional candidates among av[1..n-1], in encounter order
CandidatesOf(av, n) ==
    LET idxs == SelectSeq([i \in 1..(n - 1) |-> i], LAMBDA i : CandidateAt(av, i))
    IN  [j \in 1..Len(idxs) |-> av[idxs[j]]]

\* the step on which parse_args returns normally
ScanSucceeds == pc = "walk" /\ pc' = "idle" /\ outcome'.status = "returned"

\* C1: when parse_args succeeds, the i-th declared positional holds the i-th
\* positional candidate of the scanned vector (the tokens that are neither
\* option-like nor an option's value, in encounter order), and the caller's
\* argv[1..argc-1] is left holding exactly the candidates after the N-th, in
\* the same order; during the walk the collected list is the candidates seen.
C1_PositionalsThenLeftover ==
    /\ [](pc = "walk" => positional_args = CandidatesOf(argv, argi))
    /\ [][ScanSucceeds =>
            LET C == CandidatesOf(argv, argc)
                N == Len(m_positional_order)
            IN  /\ Len(C) >= N
                /\ \A i \in 1..N : m_positional_args'[m_positional_order[i]].value = C[i]
                /\ argc' - 1 = Len(C) - N
                /\ \A j \in 1..(Len(C) - N) : argv'[j] = C[N + j]]_vars

\* a scan of 4 tokens has returned: one option value consumed, one positional
\* assigned, one different token left over
C1_Witness ==
    /\ outcome = Returned("parse_args")
    /\ m_positional_order = << s_file >>
    /\ m_positional_args[s_file].value = t_empty
    /\ argc = 2 /\ argv[1] = t_minus5
    /\ s_tag \in DOMAIN m_optional_args /\ m_optional_args[s_tag].values = << t_minus5 >>

\* C3: when the walk has completed and fewer candidates (k) were found in the
\* vector than positionals are declared (N), parse_args throws the "requires
\* positional argument" error naming the positional declared at index k.
C3_MissingPositionalNamesFirstUnmatched ==
    [][(pc = "walk" /\ argi >= argc
          /\ Len(CandidatesOf(argv, argc)) < Len(m_positional_order)) =>
         /\ pc' = "idle"
         /\ outcome' = Thrown("parse_args", "runtime_error", "requires positional argument",
                              m_positional_order[Len(CandidatesOf(argv, argc)) + 1])]_vars

\* two positionals declared, one candidate given: the error names the second
C3_Witness ==
    /\ outcome.what = "requires positional argument"
    /\ Len(m_positional_order) = 2
    /\ Len(CandidatesOf(argv, argc)) = 1
    /\ outcome.arg = m_positional_order[2]

\* the walk stands on an option token of a SINGLE or APPEND optional
AtValueOption == pc = "walk" /\ argi < argc /\ TakesValue(argv[argi])

TokenName(tok) ==
    LET look == lookup_formatted_option_name(tok) IN
    IF look.throw THEN << >> ELSE look.name

\* the tokens that follow the occurrences of the option name among av[1..n-1]
OccurrenceValues(av, n, name) ==
    LET idxs == SelectSeq([i \in 1..(n - 2) |-> i],
                          LAMBDA i : valid_option_name(av[i]) /\ TokenName(av[i]) = name)
    IN  [j \in 1..Len(idxs) |-> av[idxs[j] + 1]]

AppendNames == { name \in DOMAIN m_optional_args : m_optional_args[name].type = "APPEND" }

\* C2: when parse_args succeeds, the values of every APPEND optional are
\* exactly the tokens that followed its occurrences in the scanned vector, in
\* order: arg_count is their number and arg_at<std::string>(name, k) is the
\* k-th of them.
C2_AppendValuesAreTheOccurrences ==
    [][ScanSucceeds =>
         \A name \in AppendNames :
            LET occ == OccurrenceValues(argv, argc, name) IN
            /\ m_optional_args'[name].values = occ
            /\ arg_count(name)' = Value(Len(occ))
            /\ \A k \in 0..(Len(occ) - 1) :
                  arg_at("string", name, k, FALSE, s_dflt)' = Value(occ[k + 1])]_vars

\* the walk stands on an option token of a FLAG or SINGLE optional that
\* already holds a value
AtRecordedOnceOption ==
    /\ pc = "walk" /\ argi < argc /\ valid_option_name(argv[argi])
    /\ TokenType(argv[argi]) \in {"FLAG", "SINGLE"}
    /\ TokenName(argv[argi]) # s_help
    /\ optional_args[TokenName(argv[argi])].values # << >>

\* a FLAG or SINGLE optional holds at most one value, in the registry and in
\* the working copy of parse_args
AtMostOneValue ==
    /\ \A name \in DOMAIN m_optional_args :
          m_optional_args[name].type \in {"FLAG", "SINGLE"} =>
             Len(m_optional_args[name].values) <= 1
    /\ \A name \in DOMAIN optional_args :
          optional_args[name].type \in {"FLAG", "SINGLE"} =>
             Len(optional_args[name].values) <= 1

\* C5 as stated: FLAG and SINGLE optionals hold at most one value in every
\* reachable state, and a further occurrence of one that already holds a value
\* makes parse_args throw "should only be specified once".
C5_Original ==
    /\ []AtMostOneValue
    /\ [][AtRecordedOnceOption =>
            /\ pc' = "idle"
            /\ outcome' = Thrown("parse_args", "runtime_error",
                                 "should only be specified once", argv[argi])]_vars

\* C5 amended: FLAG and SINGLE optionals hold at most one value in every
\* reachable state; a further occurrence of one that already holds a value
\* is not recorded and makes parse_args throw: "should only be specified
\* once", except that a SINGLE occurrence that is the last token or is followed
\* by an option-like token throws "requires a value".
C5_AtMostOnceElseRejected ==
    /\ []AtMostOneValue
    /\ [][AtRecordedOnceOption =>
            /\ pc' = "idle"
            /\ UNCHANGED registry
            /\ outcome' = Thrown("parse_args", "runtime_error",
                 IF /\ TokenType(argv[argi]) = "SINGLE"
                    /\ (argi + 1 = argc \/ valid_option_name(argv[argi + 1]))
                 THEN "requires a value"
                 ELSE "should only be specified once",
                 argv[argi])]_vars

\* a second parse_args call met an option recorded by the first one
C5_Witness ==
    /\ calls = 2
    /\ outcome.what = "should only be specified once"
    /\ m_optional_args[TokenName(outcome.arg)].values # << >>
    /\ argc = 2

\* C6: once a parse_args call has assigned a positional, no step changes its
\* value.
C6_PositionalWriteOnce ==
    [][\A name \in assigned :
          m_positional_args'[name].value = m_positional_args[name].value]_vars

\* s lists every element of S once
ListsOnce(s, S) ==
    /\ { s[i] : i \in 1..Len(s) } = S
    /\ \A i, j \in 1..Len(s) : s[i] = s[j] => i = j

\* names and flags are unique and the three maps agree
RegistryConsistent ==
    /\ DOMAIN m_positional_args \cap DOMAIN m_optional_args = {}
    /\ ListsOnce(m_positional_order, DOMAIN m_positional_args)
    /\ ListsOnce(m_optional_order, DOMAIN m_optional_args)
    /\ \A c \in DOMAIN m_flags :
          /\ m_flags[c] \in DOMAIN m_optional_args
          /\ m_optional_args[m_flags[c]].flag = c
    /\ \A name \in DOMAIN m_optional_args :
          m_optional_args[name].flag # NoFlag =>
             /\ m_optional_args[name].flag \in DOMAIN m_flags
             /\ m_flags[m_optional_args[name].flag] = name
    /\ s_help \in DOMAIN m_optional_args
    /\ m_optional_args[s_help] = Optional_Info("h", "FLAG", << >>)
    /\ m_flags["h"] = s_help

\* a step of add_positional or add_optional
DeclStep ==
    /\ pc = "idle" /\ pc' = "idle" /\ results' = results
    /\ outcome'.op \in {"add_positional", "add_optional"}

DeclaredNames == DOMAIN m_positional_args \cup DOMAIN m_optional_args

\* the step added one declaration under a name, and at most one flag, that
\* were not in use, and changed no other declaration
AddedOneFresh ==
    \E name \in (DeclaredNames') \ DeclaredNames :
       /\ DeclaredNames' = DeclaredNames \cup {name}
       /\ \A old \in DOMAIN m_positional_args :
             m_positional_args'[old] = m_positional_args[old]
       /\ \A old \in DOMAIN m_optional_args :
             m_optional_args'[old] = m_optional_args[old]
       /\ \A c \in DOMAIN m_flags : m_flags'[c] = m_flags[c]
       /\ \A c \in (DOMAIN m_flags') \ DOMAIN m_flags : m_flags'[c] = name

\* C7: in every state reached by declarations from the constructed registry
\* no name is both positional and optional, no name or flag is declared twice,
\* every flag character maps to the one optional that carries it, and help/h
\* stay as constructed; a declaration either adds one declaration under an
\* unused name (and unused flag) or throws logic_error and changes nothing.
C7_NamesAndFlagsUnique ==
    /\ []RegistryConsistent
    /\ [][DeclStep =>
            IF outcome'.status = "returned"
            THEN AddedOneFresh
            ELSE outcome'.status = "logic_error" /\ UNCHANGED registry]_vars

\* with a positional and a second flag declared, a declaration reusing -h
\* has been refused
C7_Witness ==
    /\ outcome = Thrown("add_optional", "logic_error", "duplicate flag name", t_help_flag)
    /\ m_positional_order # << >>
    /\ Cardinality(DOMAIN m_flags) >= 2

\* the exception of arg_at for "no value given ... and no default specified"
NoValue == Throw("logic_error", "no value given and no default specified")

Query(T, name, idx, has_default) ==
    [T |-> T, name |-> name, idx |-> idx, has_default |-> has_default]

\* C8: for every optional and every idx below its number of values,
\* arg_at<std::string>(name, idx), with or without a default, returns the
\* value recorded at idx; so has_arg(name) implies that arg<std::string>(name)
\* does not throw "no value given".
C8_TextGetReturnsRecorded ==
    results # NoResults =>
       \A q \in DOMAIN results :
          (/\ q.T = "string"
           /\ q.name \in DOMAIN m_optional_args
           /\ q.idx < Len(m_optional_args[q.name].values)) =>
             /\ results[q] = Value(m_optional_args[q.name].values[q.idx + 1])
             /\ (has_arg(q.name) = Value(TRUE) /\ q.idx = 0 /\ ~q.has_default)
                   => results[q] # NoValue

\* C9: for a declared positional that no parse_args call has assigned yet,
\* arg<T>(name) throws "no value given" and arg<T>(name, default_val) returns
\* default_val; once assigned, arg<std::string>(name) returns the value.
C9_UnassignedPositionalFallsBack ==
    results # NoResults =>
       \A q \in DOMAIN results :
          (q.name \in DOMAIN m_positional_args /\ q.idx = 0) =>
             IF q.name \notin assigned
             THEN results[q] = IF q.has_default THEN Value(DefaultVal(q.T)) ELSE NoValue
             ELSE q.T = "string" => results[q] = Value(m_positional_args[q.name].value)

\* the reference names of the option-like tokens among av[1..n-1]
OccurringNames(av, n) ==
    { TokenName(av[i]) : i \in { j \in 1..(n - 1) : valid_option_name(av[j]) } }

NamesOfType(type) == { name \in DOMAIN m_optional_args : m_optional_args[name].type = type }

\* C10 as stated: when parse_args succeeds, arg<bool>(name) of a FLAG optional
\* returns true if the option occurred in the scanned vector and false if not,
\* and arg<std::string>(name) of a SINGLE optional that did not occur throws
\* "no value given".
C10_Original ==
    [][ScanSucceeds =>
         /\ \A name \in NamesOfType("FLAG") :
               arg_at("bool", name, 0, FALSE, TRUE)' =
                  Value(name \in OccurringNames(argv, argc))
         /\ \A name \in NamesOfType("SINGLE") \ OccurringNames(argv, argc) :
               arg_at("string", name, 0, FALSE, s_dflt)' = NoValue]_vars

\* C10 amended: when parse_args succeeds, arg<bool>(name) of a FLAG optional
\* returns true if the option occurred in the scanned vector or arg<bool>(name)
\* returned true before the call, and false otherwise; arg<std::string>(name)
\* of a SINGLE optional that did not occur and threw "no value given" before
\* the call still throws it.
C10_FlagTrueIffMatched ==
    [][ScanSucceeds =>
         /\ \A name \in NamesOfType("FLAG") :
               arg_at("bool", name, 0, FALSE, TRUE)' =
                  Value(\/ name \in OccurringNames(argv, argc)
                        \/ arg_at("bool", name, 0, FALSE, TRUE) = Value(TRUE))
         /\ \A name \in NamesOfType("SINGLE") \ OccurringNames(argv, argc) :
               arg_at("string", name, 0, FALSE, s_dflt) = NoValue =>
                  arg_at("string", name, 0, FALSE, s_dflt)' = NoValue]_vars

\* after a successful parse_args the caller has read true for the FLAG that
\* occurred and false for help, which did not
C10_Witness ==
    /\ outcome = Returned("parse_args")
    /\ results # NoResults
    /\ s_tag \in NamesOfType("FLAG")
    /\ results[Query("bool", s_tag, 0, FALSE)] = Value(TRUE)
    /\ results[Query("bool", s_help, 0, FALSE)] = Value(FALSE)

\* the value string the registry holds for a query, << >> when it holds none
Stored(q) ==
    IF q.name \in DOMAIN m_optional_args
    THEN IF q.idx < Len(m_optional_args[q.name].values)
         THEN m_optional_args[q.name].values[q.idx + 1]
         ELSE << >>
    ELSE m_positional_args[q.name].value

\* a character that is neither a digit nor a sign in front
HasNonNumeric(v) ==
    \E i \in 1..Len(v) : v[i] \notin Digit /\ ~(i = 1 /\ v[1] \in {"+", "-"})

TypeConversionError == Throw("runtime_error", "must be of integral type")
RangeError == Throw("runtime_error", "must be in range")

\* C11: reading a stored value that contains a non-numeric character (any
\* character other than a sign in front and digits) as a signed or an
\* unsigned integer fails with the type conversion error, which is not the
\* range error; no number is returned.
C11_MalformedNumericFailsConversion ==
    /\ TypeConversionError # RangeError
    /\ \A q \in DOMAIN results :
          q.T \in IntegerTypes /\ HasNonNumeric(Stored(q))
             => results[q] = TypeConversionError

\* an optional sign followed by digits
IsDecimal(v) ==
    LET from == IF Len(v) >= 1 /\ v[1] \in {"+", "-"} THEN 2 ELSE 1 IN
    /\ from <= Len(v)
    /\ \A i \in from..Len(v) : v[i] \in Digit

\* the integer a decimal string denotes
Denotes(v) ==
    IF v[1] \in {"+", "-"}
    THEN Num(v[1] = "-", StripZeros(Tail(v)))
    ELSE Num(FALSE, StripZeros(v))

\* C12: reading a stored decimal string as an unsigned integer of width w
\* returns v only when the string denotes v and 0 <= v <= 2^w - 1; a string
\* with a leading '-' or one that denotes more than 2^w - 1 fails with the
\* range error, and no wrapped value is returned.
C12_UnsignedInRangeOrRangeError ==
    \A q \in DOMAIN results :
       q.T \in UnsignedTypes /\ IsDecimal(Stored(q)) =>
          LET v == Stored(q) IN
          /\ results[q].kind = "value" =>
                /\ results[q].val = Denotes(v)
                /\ ~NumLess(Denotes(v), Num(FALSE, Zero))
                /\ ~NumLess(max(q.T), Denotes(v))
          /\ v[1] = "-" \/ NumLess(max(q.T), Denotes(v)) => results[q] = RangeError

\* `--tag -5` was scanned and read back as an unsigned long long, and 255 is
\* not: the first is refused, and a value in range would be returned
C12_Witness ==
    /\ s_tag \in DOMAIN m_optional_args
    /\ m_optional_args[s_tag].values = << t_minus5 >>
    /\ results # NoResults
    /\ \A T \in UnsignedTypes :
          results[[T |-> T, name |-> s_tag, idx |-> 0, has_default |-> FALSE]] = RangeError

\* the walk stands on an option-like token that resolves to help
AtHelp ==
    /\ pc = "walk"
    /\ argi < argc
    /\ valid_option_name(argv[argi])
    /\ ~lookup_formatted_option_name(argv[argi]).throw
    /\ lookup_formatted_option_name(argv[argi]).name = s_help

\* C13: when the walk reaches, at an option position, a token that resolves
\* to help by its flag or its long form, parse_args ends there with the help
\* outcome: no later token is examined, no error is raised for a later token
\* or for a declared positional without a candidate, nothing is committed,
\* and help holds no value in any reachable state.
C13_HelpEndsTheScan ==
    /\ [](m_optional_args[s_help].values = << >>)
    /\ [][ /\ AtHelp =>
               /\ pc' = "exited"
               /\ outcome'.status = "exit"
               /\ argi' = argi
               /\ UNCHANGED << registry, caller >>
           /\ pc # "exited"
           /\ pc' = "exited" => AtHelp ]_vars

\* help was met while a later token names no declared option and the
\* declared positional has no candidate
C13_Witness ==
    /\ pc = "exited"
    /\ outcome.status = "exit"
    /\ argi + 1 < argc
    /\ argv[argi] \in { t_help_long, t_help_dash }
    /\ argv[argc - 1] = t_tag_long
    /\ s_tag \notin DOMAIN m_optional_args
    /\ m_positional_order = << s_dst >>
    /\ positional_args = << >>

\* parse_args is running or has just been called
ScanStep == pc = "walk" \/ pc' = "walk"

\* the step on which parse_args throws
ScanFails ==
    /\ pc = "walk"
    /\ pc' = "idle"
    /\ outcome'.op = "parse_args"
    /\ outcome'.status = "runtime_error"

ScanErrors ==
    { "invalid flag", "invalid option", "requires a value",
      "should only be specified once", "requires positional argument" }

\* C14: a parse_args that throws (unknown option, missing value, duplicate,
\* missing positional) leaves the values of every optional, the value of
\* every positional and the caller's argc and argv as they were when it was
\* called, also when earlier tokens of the vector were matched: from the
\* call to the throw no step changes them, the matches go to a working copy,
\* and only the return of parse_args commits.
C14_FailedScanCommitsNothing ==
    [][ /\ ScanFails =>
              /\ outcome'.what \in ScanErrors
              /\ UNCHANGED << registry, caller, assigned >>
        /\ ScanStep /\ ~ScanSucceeds => UNCHANGED registry
        /\ pc = "walk" /\ ~ScanSucceeds => UNCHANGED caller ]_vars

\* the first scan matched `--tag -5`, then failed for the positional: the
\* option holds no value
C14_Witness ==
    /\ pc = "idle"
    /\ calls = 1
    /\ outcome.op = "parse_args"
    /\ outcome.what = "requires positional argument"
    /\ argc = 3
    /\ argv[1] = t_tag_long
    /\ argv[2] = t_minus5
    /\ s_tag \in DOMAIN m_optional_args
    /\ m_optional_args[s_tag].type = "APPEND"
    /\ m_optional_args[s_tag].values = << >>

====
